---- MODULE Spec2Model ----
(***************************************************************************)
(* BOM generation from solution templates (app/services/solution_service). *)
(*                                                                         *)
(* Conventions.  A Python Optional value is a sequence of length <= 1:     *)
(* None is <<>> and a present value x is <<x>>.  A dict is a record whose  *)
(* DOMAIN is its key set.  A formula string is a sequence of tokens.       *)
(* uuid4() is a fresh natural number.  Numeric(10,2)/float prices are      *)
(* whole numbers, on which float(Decimal) and float multiplication are     *)
(* exact.  Rows of a table are kept in insertion (rowid) order, the order  *)
(* SQLite returns them in for the queries of this service.                 *)
(***************************************************************************)
EXTENDS Integers, Sequences, FiniteSets, TLC

VARIABLES
    solutions,  \* rows of the solutions table, each with its components
    vendors,    \* rows of the vendors table
    products,   \* rows of the products table
    next_id,    \* the next value uuid4() returns
    call,       \* the locals of the generate_bom call in progress
    output,     \* what the last tool call returned
    probe,      \* arguments and result of a function applied on its own
    sessions    \* the tool calls in progress on database sessions of their own

vars == <<solutions, vendors, products, next_id, call, output, probe, sessions>>

stores == <<solutions, vendors, products>>

-----------------------------------------------------------------------------
(* Python values *)

None == <<>>

Some(x) == <<x>>

\* bool(x) for an Optional[int]: None and 0 are falsy
TruthyInt(o) == Len(o) > 0 /\ o[1] # 0

\* bool(x) for an Optional[str]: None and "" are falsy
TruthyStr(o) == Len(o) > 0 /\ o[1] # ""

\* `o or default` where o is Optional[int] and default an int
OrInt(o, default) == IF TruthyInt(o) THEN o[1] ELSE default

\* `o or default` where o is Optional[str] and default a str
OrStr(o, default) == IF TruthyStr(o) THEN o[1] ELSE default

\* dict.get(k)
get(d, k) == IF k \in DOMAIN d THEN Some(d[k]) ELSE None

Min(S) == CHOOSE x \in S : \A y \in S : x <= y

\* index of the first element of seq satisfying P, 0 if none (a for/break scan)
FirstIndex(seq, P(_)) ==
    LET S == {i \in 1..Len(seq) : P(seq[i])}
    IN  IF S = {} THEN 0 ELSE Min(S)

-----------------------------------------------------------------------------
(* Formula strings and their evaluation (str.replace, eval, math.ceil) *)

Num(n) == [t |-> "num", n |-> n, s |-> ""]

Var(s) == [t |-> "name", n |-> 0, s |-> s]

Op(s) == [t |-> "op", n |-> 0, s |-> s]

\* formula.replace(name, str(value)): every occurrence of the name becomes
\* the numeral of value
replace(formula, name, value) ==
    [i \in 1..Len(formula) |->
        IF formula[i].t = "name" /\ formula[i].s = name
        THEN Num(value) ELSE formula[i]]

\* result of evaluating a prefix: the rational n/d (d > 0) and the position
\* of the next token, or the exception raised
Value(n, d, pos) == [ok |-> TRUE, n |-> n, d |-> d, pos |-> pos, err |-> ""]

Raise(err) == [ok |-> FALSE, n |-> 0, d |-> 1, pos |-> 0, err |-> err]

\* a / b on rationals, ZeroDivisionError when b = 0
Divide(a, b, pos) ==
    IF b.n = 0 THEN Raise("ZeroDivisionError")
    ELSE IF b.n > 0 THEN Value(a.n * b.d, a.d * b.n, pos)
    ELSE Value(-(a.n * b.d), -(a.d * b.n), pos)

RECURSIVE eval_factor(_, _)
\* factor: NUMBER | NAME | ("+" | "-") factor
eval_factor(toks, i) ==
    IF i > Len(toks) THEN Raise("SyntaxError")
    ELSE IF toks[i].t = "num" THEN Value(toks[i].n, 1, i + 1)
    ELSE IF toks[i].t = "name" THEN Raise("NameError")
    ELSE IF toks[i].s \in {"+", "-"}
         THEN LET r == eval_factor(toks, i + 1)
              IN  IF ~r.ok THEN r
                  ELSE IF toks[i].s = "-" THEN Value(-r.n, r.d, r.pos)
                  ELSE r
    ELSE Raise("SyntaxError")

RECURSIVE eval_term_rest(_, _)
\* term: factor (("*" | "/") factor)*, left to right
eval_term_rest(toks, acc) ==
    IF ~acc.ok THEN acc
    ELSE IF acc.pos <= Len(toks) /\ toks[acc.pos].t = "op"
            /\ toks[acc.pos].s \in {"*", "/"}
         THEN LET f == eval_factor(toks, acc.pos + 1)
              IN  IF ~f.ok THEN f
                  ELSE IF toks[acc.pos].s = "*"
                       THEN eval_term_rest(toks,
                                Value(acc.n * f.n, acc.d * f.d, f.pos))
                       ELSE eval_term_rest(toks, Divide(acc, f, f.pos))
    ELSE acc

eval_term(toks, i) == eval_term_rest(toks, eval_factor(toks, i))

RECURSIVE eval_expr_rest(_, _)
\* expr: term (("+" | "-") term)*, left to right
eval_expr_rest(toks, acc) ==
    IF ~acc.ok THEN acc
    ELSE IF acc.pos <= Len(toks) /\ toks[acc.pos].t = "op"
            /\ toks[acc.pos].s \in {"+", "-"}
         THEN LET f == eval_term(toks, acc.pos + 1)
              IN  IF ~f.ok THEN f
                  ELSE IF toks[acc.pos].s = "+"
                       THEN eval_expr_rest(toks,
                                Value(acc.n * f.d + f.n * acc.d, acc.d * f.d, f.pos))
                       ELSE eval_expr_rest(toks,
                                Value(acc.n * f.d - f.n * acc.d, acc.d * f.d, f.pos))
    ELSE acc

\* eval(formula): the whole token sequence must be one expression
eval(toks) ==
    LET r == eval_expr_rest(toks, eval_term(toks, 1))
    IN  IF r.ok /\ r.pos # Len(toks) + 1 THEN Raise("SyntaxError") ELSE r

\* math.ceil of the rational n/d, d > 0 (\div rounds towards minus infinity)
ceil(r) == -((-r.n) \div r.d)

max(a, b) == IF a >= b THEN a ELSE b

-----------------------------------------------------------------------------
(* SolutionService._calculate_quantity *)

\* the formula after the three replace calls of the calculated branch
substituted(component, request) ==
    LET sites == OrInt(request.sites, 0)
        devices == OrInt(request.devices, OrInt(request.sites, 0))
        users == OrInt(request.users, 0)
    IN  replace(replace(replace(component.quantity_formula,
                "sites", sites), "devices", devices), "users", users)

\* outcome of a call: the value returned, or the exception that escapes
Return(value) == [raised |-> "", value |-> value]

Escape(err) == [raised |-> err, value |-> 0]

\* eval_or_default without the try/except: the exception escapes
eval_or_raise(formula, quantity_default) ==
    LET result == eval(formula)
    IN  IF result.ok THEN Return(max(1, ceil(result)))
        ELSE Escape(result.err)

\* eval_or_default without the max(1, ...) floor
eval_or_default_no_floor(formula, quantity_default) ==
    LET result == eval(formula)
    IN  IF result.ok THEN Return(ceil(result))
        ELSE Return(quantity_default)

\* eval_or_default falling back to 0 instead of quantity_default
eval_or_zero(formula, quantity_default) ==
    LET result == eval(formula)
    IN  IF result.ok THEN Return(max(1, ceil(result)))
        ELSE Return(0)

\* the try/except around eval and math.ceil: any Exception gives the default
eval_or_default(formula, quantity_default) ==
    LET result == eval(formula)
    IN  IF result.ok THEN Return(max(1, ceil(result)))
        ELSE Return(quantity_default)

\* _calculate_quantity doubling every fixed controller quantity under HA
_calculate_quantity_ha_any_default(component, request) ==
    IF component.quantity_type = "fixed"
    THEN LET qty == component.quantity_default
         IN  IF component.component_type = "controller" /\ request.ha_enabled
             THEN Return(qty * 2)
             ELSE Return(qty)
    ELSE IF component.quantity_type = "per_site"
    THEN Return(OrInt(request.sites, 0))
    ELSE IF component.quantity_type = "per_device"
    THEN Return(OrInt(request.devices, OrInt(request.sites, 0)))
    ELSE IF component.quantity_type = "per_user"
    THEN Return(OrInt(request.users, 0))
    ELSE IF component.quantity_type = "calculated"
            /\ Len(component.quantity_formula) > 0
    THEN eval_or_default(substituted(component, request),
                         component.quantity_default)
    ELSE Return(component.quantity_default)

_calculate_quantity(component, request) ==
    IF component.quantity_type = "fixed"
    THEN LET qty == component.quantity_default
         IN  IF component.component_type = "controller"
                /\ request.ha_enabled /\ qty = 1
             THEN Return(2)
             ELSE Return(qty)
    ELSE IF component.quantity_type = "per_site"
    THEN Return(OrInt(request.sites, 0))
    ELSE IF component.quantity_type = "per_device"
    THEN Return(OrInt(request.devices, OrInt(request.sites, 0)))
    ELSE IF component.quantity_type = "per_user"
    THEN Return(OrInt(request.users, 0))
    ELSE IF component.quantity_type = "calculated"
            /\ Len(component.quantity_formula) > 0
    THEN eval_or_default(substituted(component, request),
                         component.quantity_default)
    ELSE Return(component.quantity_default)

-----------------------------------------------------------------------------
(* SolutionService._resolve_product *)

\* first truthy of two Optional[int], else the second (`a or b`)
OrOpt(a, b) == IF TruthyInt(a) THEN a ELSE b

\* license_tier_sku without the second scan by tier name
license_tier_sku_exact_only(component, request) ==
    LET tiers == component.sizing_tiers
        target_tier == OrStr(request.license_tier, "essentials")
        target_term == OrInt(request.license_term_years, 5)
        Exact(tier) == /\ get(tier, "tier") = Some(target_tier)
                       /\ get(tier, "term_years") = Some(target_term)
        i == FirstIndex(tiers, Exact)
    IN  IF i = 0 THEN None ELSE get(tiers[i], "sku")

\* license tier selection based on tier name and term, with the fallback to
\* any tier of that name
license_tier_sku(component, request) ==
    LET tiers == component.sizing_tiers
        target_tier == OrStr(request.license_tier, "essentials")
        target_term == OrInt(request.license_term_years, 5)
        Exact(tier) == /\ get(tier, "tier") = Some(target_tier)
                       /\ get(tier, "term_years") = Some(target_term)
        ByName(tier) == get(tier, "tier") = Some(target_tier)
        i == FirstIndex(tiers, Exact)
        sku == IF i = 0 THEN None ELSE get(tiers[i], "sku")
        j == FirstIndex(tiers, ByName)
    IN  IF ~TruthyStr(sku) /\ j # 0 THEN get(tiers[j], "sku") ELSE sku

\* the threshold of a scale tier record
max_val(tier) ==
    OrOpt(get(tier, "max_aps"),
          OrOpt(get(tier, "max_devices"),
                OrOpt(get(tier, "max_sites"), get(tier, "max_users"))))

\* scale_tier_sku taking the fitting tier of least threshold, whatever its place
scale_tier_sku_smallest(component, request, quantity) ==
    LET tiers == component.sizing_tiers
        scale_value == OrInt(request.devices, OrInt(request.sites, quantity))
        Fits(tier) == /\ TruthyInt(max_val(tier))
                      /\ scale_value <= max_val(tier)[1]
        S == {k \in 1..Len(tiers) : Fits(tiers[k])}
        i == IF S = {} THEN 0
             ELSE CHOOSE k \in S : \A l \in S : max_val(tiers[k])[1] <= max_val(tiers[l])[1]
        sku == IF i = 0 THEN None ELSE get(tiers[i], "sku")
    IN  IF ~TruthyStr(sku) /\ Len(tiers) > 0
        THEN get(tiers[Len(tiers)], "sku")
        ELSE sku

\* scale-based tier selection, with the fallback to the last tier
scale_tier_sku(component, request, quantity) ==
    LET tiers == component.sizing_tiers
        scale_value == OrInt(request.devices, OrInt(request.sites, quantity))
        Fits(tier) == /\ TruthyInt(max_val(tier))
                      /\ scale_value <= max_val(tier)[1]
        i == FirstIndex(tiers, Fits)
        sku == IF i = 0 THEN None ELSE get(tiers[i], "sku")
    IN  IF ~TruthyStr(sku) /\ Len(tiers) > 0
        THEN get(tiers[Len(tiers)], "sku")
        ELSE sku

\* resolve_sku consulting the sizing tiers before the override
resolve_sku_tiers_first(component, request, quantity) ==
    IF Len(component.sizing_tiers) > 0
    THEN LET first_tier == component.sizing_tiers[1]
         IN  IF "tier" \in DOMAIN first_tier /\ "term_years" \in DOMAIN first_tier
             THEN license_tier_sku(component, request)
             ELSE scale_tier_sku(component, request, quantity)
    ELSE IF component.id \in DOMAIN request.product_selections
    THEN Some(request.product_selections[component.id])
    ELSE IF Len(component.product_options) > 0
    THEN Some(component.product_options[1])
    ELSE None

\* resolve_sku turning to product_options when the tiers give no sku
resolve_sku_options_fallback(component, request, quantity) ==
    LET from_tiers ==
            IF Len(component.sizing_tiers) = 0 THEN None
            ELSE LET first_tier == component.sizing_tiers[1]
                 IN  IF "tier" \in DOMAIN first_tier /\ "term_years" \in DOMAIN first_tier
                     THEN license_tier_sku(component, request)
                     ELSE scale_tier_sku(component, request, quantity)
    IN  IF component.id \in DOMAIN request.product_selections
        THEN Some(request.product_selections[component.id])
        ELSE IF TruthyStr(from_tiers) THEN from_tiers
        ELSE IF Len(component.product_options) > 0
        THEN Some(component.product_options[1])
        ELSE from_tiers

\* the sku chosen by _resolve_product before the catalog lookup
resolve_sku(component, request, quantity) ==
    IF component.id \in DOMAIN request.product_selections
    THEN Some(request.product_selections[component.id])
    ELSE IF Len(component.sizing_tiers) > 0
    THEN LET first_tier == component.sizing_tiers[1]
         IN  IF "tier" \in DOMAIN first_tier /\ "term_years" \in DOMAIN first_tier
             THEN license_tier_sku(component, request)
             ELSE scale_tier_sku(component, request, quantity)
    ELSE IF Len(component.product_options) > 0
    THEN Some(component.product_options[1])
    ELSE None

\* Product.list_price_float
list_price_float(product) ==
    IF product.list_price # None THEN Some(product.list_price[1]) ELSE None

\* db.query(Product).filter(Product.sku == sku).first()
query_product(catalog, sku) ==
    LET i == FirstIndex(catalog, LAMBDA p : p.sku = sku)
    IN  IF i = 0 THEN None ELSE Some(catalog[i])

\* _resolve_product pricing at 0 a sku that has no product
_resolve_product_zero_price(component, request, quantity, catalog) ==
    LET sku == resolve_sku(component, request, quantity)
        product == IF TruthyStr(sku) THEN query_product(catalog, sku[1]) ELSE None
    IN  [sku |-> sku,
         product_name |-> IF product # None THEN Some(product[1].name) ELSE None,
         unit_price |-> IF product # None THEN list_price_float(product[1]) ELSE Some(0),
         lookups |-> IF TruthyStr(sku) THEN 1 ELSE 0]

\* _resolve_product querying the catalog whether or not there is a sku
_resolve_product_always_queries(component, request, quantity, catalog) ==
    LET sku == resolve_sku(component, request, quantity)
        product == IF TruthyStr(sku) THEN query_product(catalog, sku[1]) ELSE None
    IN  [sku |-> sku,
         product_name |-> IF product # None THEN Some(product[1].name) ELSE None,
         unit_price |-> IF product # None THEN list_price_float(product[1]) ELSE None,
         lookups |-> 1]

\* SolutionService._resolve_product: the sku, then the catalog lookup
_resolve_product(component, request, quantity, catalog) ==
    LET sku == resolve_sku(component, request, quantity)
        product == IF TruthyStr(sku) THEN query_product(catalog, sku[1]) ELSE None
    IN  [sku |-> sku,
         product_name |-> IF product # None THEN Some(product[1].name) ELSE None,
         unit_price |-> IF product # None THEN list_price_float(product[1]) ELSE None,
         lookups |-> IF TruthyStr(sku) THEN 1 ELSE 0]

-----------------------------------------------------------------------------
(* Bounds and input sets of the state machine *)

\* components per created solution
MaxComponents == 2

\* calls of create_solution that succeed in one behaviour
MaxCreates == 2

\* SolutionComponentBase: the schema's defaults
ComponentBase ==
    [name |-> "", component_type |-> "edge", is_required |-> TRUE,
     display_order |-> 0, quantity_type |-> "fixed", quantity_default |-> 1,
     quantity_formula |-> <<>>, sizing_tiers |-> <<>>, product_options |-> <<>>,
     license_term_months |-> <<>>, notes |-> None]

ScaleTiers == <<[max_devices |-> 2, sku |-> "A"], [max_devices |-> 5, sku |-> "B"]>>

LicenseTiers ==
    <<[tier |-> "essentials", term_years |-> 3, sku |-> "X"],
      [tier |-> "advantage", term_years |-> 5, sku |-> "Y"]>>

\* component definitions a caller of create_solution may declare
ComponentDefs ==
    { [ComponentBase EXCEPT !.name = "Controller", !.component_type = "controller",
          !.sizing_tiers = ScaleTiers],
      [ComponentBase EXCEPT !.name = "Edge Router", !.is_required = FALSE,
          !.display_order = 1, !.quantity_type = "per_site",
          !.product_options = <<"EDGE-SKU">>, !.notes = Some("one per site")],
      [ComponentBase EXCEPT !.name = "License", !.component_type = "license",
          !.display_order = 2, !.quantity_type = "per_device",
          !.sizing_tiers = LicenseTiers, !.license_term_months = <<12, 60>>],
      [ComponentBase EXCEPT !.name = "Gateway", !.component_type = "software",
          !.display_order = 2, !.quantity_type = "calculated",
          !.quantity_default = 3,
          !.quantity_formula = <<Var("devices"), Op("/"), Num(2)>>],
      [ComponentBase EXCEPT !.name = "Collector", !.component_type = "subscription",
          !.is_required = FALSE, !.quantity_type = "calculated",
          !.quantity_default = 2,
          !.quantity_formula = <<Var("devices"), Op("/"), Num(0)>>,
          !.product_options = <<"X">>, !.notes = Some("sized by hand")] }

RECURSIVE SeqsUpTo(_, _)
\* the sequences over S of length at most n
SeqsUpTo(S, n) ==
    IF n = 0 THEN {<<>>}
    ELSE LET shorter == SeqsUpTo(S, n - 1)
         IN  shorter \cup {Append(q, x) : q \in shorter, x \in S}

\* the (name, vendor_id) pairs solutions are created under
SolutionKeys == [name : {"Test-SDWAN"}, vendor_id : {"cisco"}]

\* SolutionCreate payloads
SolutionCreates ==
    [name : {k.name : k \in SolutionKeys}, vendor_id : {k.vendor_id : k \in SolutionKeys},
     use_cases : {<<>>, <<"branch", "campus">>},
     components : SeqsUpTo(ComponentDefs, MaxComponents)]

\* states of the vendor and product tables the BOM engine may find
Catalogs ==
    { [vendors |-> <<[id |-> "cisco", name |-> "Cisco"]>>,
       products |-> <<[sku |-> "A", name |-> "Controller S", list_price |-> Some(100)],
                      [sku |-> "B", name |-> "Controller M", list_price |-> Some(250)],
                      [sku |-> "A", name |-> "Controller S v2", list_price |-> Some(120)],
                      [sku |-> "EDGE-SKU", name |-> "Edge", list_price |-> Some(40)],
                      [sku |-> "X", name |-> "Essentials 3Y", list_price |-> Some(50)],
                      [sku |-> "Y", name |-> "Advantage 5Y", list_price |-> Some(0)]>>],
      [vendors |-> <<>>,
       products |-> <<[sku |-> "A", name |-> "Controller S", list_price |-> None],
                      [sku |-> "EDGE-SKU", name |-> "Edge trade-in", list_price |-> Some(-40)],
                      [sku |-> "X", name |-> "Essentials 3Y", list_price |-> Some(50)]>>] }

\* BOMRequest values for one solution_id; product_selections is a dict keyed
\* by component id
BOMRequestsFor(sid) ==
    { [solution_id |-> sid, sites |-> sz[1], devices |-> sz[2], users |-> None,
       license_tier |-> opt[1], license_term_years |-> opt[2],
       ha_enabled |-> opt[3], product_selections |-> opt[4]] :
        sz \in {<<None, None>>, <<Some(2), None>>, <<Some(2), Some(3)>>},
        opt \in {<<None, None, TRUE, <<>>>>,
                 <<Some("advantage"), Some(3), FALSE, <<>>>>,
                 <<None, None, FALSE, [c \in {<<sid, 1>>} |-> "B"]>>} }

BOMRequests == UNION {BOMRequestsFor(sid) : sid \in 1..MaxCreates}

-----------------------------------------------------------------------------
(* The store *)

\* get_solution without the filter on the id
get_solution_unfiltered(rows, solution_id) ==
    IF Len(rows) = 0 THEN None ELSE Some(rows[1])

\* SolutionService.get_solution
get_solution(rows, solution_id) ==
    LET i == FirstIndex(rows, LAMBDA r : r.id = solution_id)
    IN  IF i = 0 THEN None ELSE Some(rows[i])

\* SolutionService.get_solution_by_name
get_solution_by_name(rows, name, vendor_id) ==
    LET i == FirstIndex(rows, LAMBDA r : r.name = name /\ r.vendor_id = vendor_id)
    IN  IF i = 0 THEN None ELSE Some(rows[i])

\* db.query(Vendor).filter(Vendor.id == vendor_id).first()
query_vendor(rows, vendor_id) ==
    LET i == FirstIndex(rows, LAMBDA r : r.id = vendor_id)
    IN  IF i = 0 THEN None ELSE Some(rows[i])

\* the SolutionComponent row create_solution builds from the i-th (0-based)
\* declared component
new_component(solution_id, i, comp_data) ==
    [id |-> <<solution_id, i + 1>>,
     solution_id |-> solution_id,
     name |-> comp_data.name,
     component_type |-> comp_data.component_type,
     is_required |-> comp_data.is_required,
     display_order |-> IF comp_data.display_order # 0
                       THEN comp_data.display_order ELSE i,
     quantity_type |-> comp_data.quantity_type,
     quantity_default |-> comp_data.quantity_default,
     quantity_formula |-> comp_data.quantity_formula,
     sizing_tiers |-> comp_data.sizing_tiers,
     product_options |-> comp_data.product_options,
     license_term_months |-> comp_data.license_term_months,
     notes |-> comp_data.notes]

\* the Solution row, with its components, that SolutionService.create_solution
\* commits
new_solution(id, data) ==
    [id |-> id, name |-> data.name, vendor_id |-> data.vendor_id,
     use_cases_list |-> data.use_cases,
     components |-> [k \in 1..Len(data.components) |->
                        new_component(id, k - 1, data.components[k])]]

\* a comparison that places a component before the earlier ones of equal
\* display_order
display_order_lt(a, b) == a.display_order < b.display_order

\* key of the stable comparison sort
display_order_le(a, b) == a.display_order <= b.display_order

RECURSIVE sorted(_)
\* sorted(components, key=lambda c: c.display_order): stable
sorted(seq) ==
    IF Len(seq) <= 1 THEN seq
    ELSE LET s == sorted(SubSeq(seq, 1, Len(seq) - 1))
             x == seq[Len(seq)]
             k == Cardinality({i \in 1..Len(s) : display_order_le(s[i], x)})
         IN  SubSeq(s, 1, k) \o <<x>> \o SubSeq(s, k + 1, Len(s))

-----------------------------------------------------------------------------
(* SolutionService.generate_bom, one step per loop iteration *)

\* no generate_bom call in progress; pc is "idle" before the first call, "loop"
\* inside the loop, "returned" or "raised" after the call, with its request
Idle ==
    [pc |-> "idle", request |-> None, solution |-> None, vendor |-> None,
     components |-> <<>>, i |-> 0, quantity |-> 0, sku |-> None,
     line_items |-> <<>>, notes |-> <<>>, warnings |-> <<>>,
     hardware_total |-> 0, licensing_total |-> 0, lookups |-> 0]

\* no tool has returned yet
NoOutput == [tool |-> "", error |-> None, bom |-> None, success |-> FALSE]

NoProbe == [fn |-> "", done |-> FALSE, component |-> None, request |-> None,
            quantity |-> 0, out |-> None]

IsLicensing(component) == component.component_type \in {"license", "subscription"}

\* license_details filled in for every component type
license_details_any_type(component, request) ==
    [license_tier |-> request.license_tier,
     license_term_months |->
         IF TruthyInt(request.license_term_years)
         THEN Some(request.license_term_years[1] * 12)
         ELSE IF Len(component.license_term_months) > 0
         THEN Some(component.license_term_months[1])
         ELSE None]

\* the license details of a line item
license_details(component, request) ==
    IF IsLicensing(component)
    THEN [license_tier |-> request.license_tier,
          license_term_months |->
              IF TruthyInt(request.license_term_years)
              THEN Some(request.license_term_years[1] * 12)
              ELSE IF Len(component.license_term_months) > 0
              THEN Some(component.license_term_months[1])
              ELSE None]
    ELSE [license_tier |-> None, license_term_months |-> None]

\* BOMLineItem with no extended price when the quantity is 0
BOMLineItem_unless_zero(component, request, quantity, resolved) ==
    [component_id |-> component.id,
     component_name |-> component.name,
     component_type |-> component.component_type,
     quantity |-> quantity,
     sku |-> resolved.sku,
     product_name |-> resolved.product_name,
     unit_price |-> resolved.unit_price,
     extended_price |-> IF resolved.unit_price # None /\ quantity # 0
                        THEN Some(resolved.unit_price[1] * quantity) ELSE None,
     license_tier |-> license_details(component, request).license_tier,
     license_term_months |-> license_details(component, request).license_term_months,
     notes |-> component.notes,
     is_required |-> component.is_required]

\* BOMLineItem(...)
BOMLineItem(component, request, quantity, resolved) ==
    [component_id |-> component.id,
     component_name |-> component.name,
     component_type |-> component.component_type,
     quantity |-> quantity,
     sku |-> resolved.sku,
     product_name |-> resolved.product_name,
     unit_price |-> resolved.unit_price,
     extended_price |-> IF resolved.unit_price # None
                        THEN Some(resolved.unit_price[1] * quantity) ELSE None,
     license_tier |-> license_details(component, request).license_tier,
     license_term_months |-> license_details(component, request).license_term_months,
     notes |-> component.notes,
     is_required |-> component.is_required]

\* skipping every component of zero quantity, required or not
skipped_when_zero(component, quantity) == quantity = 0

\* components with zero quantity that are not required are skipped
skipped(component, quantity) == quantity = 0 /\ ~component.is_required

\* BOMResponse with the use-cases note ahead of the component notes
BOMResponse_use_cases_first(c) ==
    [solution_id |-> c.solution[1].id,
     solution_name |-> c.solution[1].name,
     vendor_id |-> c.solution[1].vendor_id,
     vendor_name |-> IF c.vendor # None THEN Some(c.vendor[1].name) ELSE None,
     parameters |-> [sites |-> c.request[1].sites,
                     devices |-> c.request[1].devices,
                     users |-> c.request[1].users,
                     license_tier |-> c.request[1].license_tier,
                     license_term_years |-> c.request[1].license_term_years,
                     ha_enabled |-> c.request[1].ha_enabled],
     line_items |-> c.line_items,
     hardware_total |-> IF c.hardware_total > 0 THEN Some(c.hardware_total) ELSE None,
     licensing_total |-> IF c.licensing_total > 0 THEN Some(c.licensing_total) ELSE None,
     grand_total |-> IF c.hardware_total > 0 \/ c.licensing_total > 0
                     THEN Some(c.hardware_total + c.licensing_total) ELSE None,
     notes |-> IF Len(c.solution[1].use_cases_list) > 0
               THEN <<<<"Use cases: ">> \o c.solution[1].use_cases_list>> \o c.notes
               ELSE c.notes,
     warnings |-> c.warnings]

\* BOMResponse(...)
BOMResponse(c) ==
    [solution_id |-> c.solution[1].id,
     solution_name |-> c.solution[1].name,
     vendor_id |-> c.solution[1].vendor_id,
     vendor_name |-> IF c.vendor # None THEN Some(c.vendor[1].name) ELSE None,
     parameters |-> [sites |-> c.request[1].sites,
                     devices |-> c.request[1].devices,
                     users |-> c.request[1].users,
                     license_tier |-> c.request[1].license_tier,
                     license_term_years |-> c.request[1].license_term_years,
                     ha_enabled |-> c.request[1].ha_enabled],
     line_items |-> c.line_items,
     hardware_total |-> IF c.hardware_total > 0 THEN Some(c.hardware_total) ELSE None,
     licensing_total |-> IF c.licensing_total > 0 THEN Some(c.licensing_total) ELSE None,
     grand_total |-> IF c.hardware_total > 0 \/ c.licensing_total > 0
                     THEN Some(c.hardware_total + c.licensing_total) ELSE None,
     notes |-> IF Len(c.solution[1].use_cases_list) > 0
               THEN Append(c.notes, <<"Use cases: ">> \o c.solution[1].use_cases_list)
               ELSE c.notes,
     warnings |-> c.warnings]

\* mcp_server.generate_solution_bom as a function of its request and of the
\* rows it reads: the error of an unknown solution, or the response whose line
\* items are those of the retained components in sorted order, whose totals
\* are the sums of their extended prices and whose notes are theirs
generate_solution_bom(request, solution_rows, vendor_rows, catalog) ==
    LET solution == get_solution(solution_rows, request.solution_id)
    IN  IF solution = None
        THEN [NoOutput EXCEPT !.tool = "generate_solution_bom",
                !.error = Some(<<"Solution not found: ", request.solution_id>>)]
        ELSE
        LET quantity(component) == _calculate_quantity(component, request).value
            retained == SelectSeq(sorted(solution[1].components),
                                  LAMBDA c : ~skipped(c, quantity(c)))
            n == Len(retained)
            items == [k \in 1..n |->
                        BOMLineItem(retained[k], request, quantity(retained[k]),
                                    _resolve_product(retained[k], request,
                                                     quantity(retained[k]), catalog))]
            price(k) == IF items[k].extended_price # None
                        THEN items[k].extended_price[1] ELSE 0
            hardware[k \in 0..n] ==
                IF k = 0 THEN 0
                ELSE hardware[k - 1] + (IF IsLicensing(retained[k]) THEN 0 ELSE price(k))
            licensing[k \in 0..n] ==
                IF k = 0 THEN 0
                ELSE licensing[k - 1] + (IF IsLicensing(retained[k]) THEN price(k) ELSE 0)
            noted == SelectSeq(retained, LAMBDA c : TruthyStr(c.notes))
            locals == [Idle EXCEPT
                        !.request = Some(request),
                        !.solution = solution,
                        !.vendor = query_vendor(vendor_rows, solution[1].vendor_id),
                        !.line_items = items,
                        !.hardware_total = hardware[n],
                        !.licensing_total = licensing[n],
                        !.notes = [k \in 1..Len(noted) |->
                                     <<noted[k].name, ": ", noted[k].notes[1]>>]]
        IN  [NoOutput EXCEPT !.tool = "generate_solution_bom",
                             !.bom = Some(BOMResponse(locals))]

\* generate_bom_load leaving components of equal display_order in either order
generate_bom_load_any_order(request) ==
    /\ call.pc # "loop"
    /\ LET solution == get_solution(solutions, request.solution_id)
       IN  IF solution = None
           THEN /\ call' = [Idle EXCEPT !.pc = "raised", !.request = Some(request)]
                /\ output' = [NoOutput EXCEPT !.tool = "generate_solution_bom",
                        !.error = Some(<<"Solution not found: ", request.solution_id>>)]
           ELSE /\ \E components \in
                        {sorted(solution[1].components),
                         sorted([k \in 1..Len(solution[1].components) |->
                                   solution[1].components[
                                       Len(solution[1].components) + 1 - k]])} :
                        call' = [Idle EXCEPT !.pc = "loop", !.request = Some(request),
                                    !.solution = solution,
                                    !.vendor = query_vendor(vendors, solution[1].vendor_id),
                                    !.components = components]
                /\ output' = NoOutput
    /\ UNCHANGED <<solutions, vendors, products, next_id, probe, sessions>>

\* lines 131-144: load the solution (or raise), its vendor, sort the components
generate_bom_load(request) ==
    /\ call.pc # "loop"
    /\ LET solution == get_solution(solutions, request.solution_id)
       IN  IF solution = None
           THEN /\ call' = [Idle EXCEPT !.pc = "raised", !.request = Some(request)]
                /\ output' = [NoOutput EXCEPT !.tool = "generate_solution_bom",
                        !.error = Some(<<"Solution not found: ", request.solution_id>>)]
           ELSE /\ call' = [Idle EXCEPT !.pc = "loop", !.request = Some(request),
                        !.solution = solution,
                        !.vendor = query_vendor(vendors, solution[1].vendor_id),
                        !.components = sorted(solution[1].components)]
                /\ output' = NoOutput
    /\ UNCHANGED <<solutions, vendors, products, next_id, probe, sessions>>

\* lines 146-196: one iteration of the loop over the sorted components; an
\* exception that escapes ends the call
generate_bom_component ==
    /\ call.pc = "loop"
    /\ call.i < Len(call.components)
    /\ \E component \in {call.components[call.i + 1]}, request \in {call.request[1]} :
       \E calculated \in {_calculate_quantity(component, request)} :
       \E resolved \in {_resolve_product(component, request, calculated.value, products)} :
       \E line_item \in {BOMLineItem(component, request, calculated.value, resolved)} :
       \E price \in {IF line_item.extended_price # None
                     THEN line_item.extended_price[1] ELSE 0} :
           IF calculated.raised # ""
           THEN /\ call' = [Idle EXCEPT !.pc = "raised", !.request = call.request]
                /\ output' = [NoOutput EXCEPT !.tool = "generate_solution_bom",
                                              !.error = Some(<<calculated.raised>>)]
           ELSE IF skipped(component, calculated.value)
           THEN /\ call' = [call EXCEPT !.i = @ + 1, !.quantity = calculated.value,
                                        !.sku = None]
                /\ output' = output
           ELSE /\ call' = [call EXCEPT
                    !.i = @ + 1,
                    !.quantity = calculated.value,
                    !.sku = resolved.sku,
                    !.lookups = @ + resolved.lookups,
                    !.licensing_total = IF IsLicensing(component) THEN @ + price ELSE @,
                    !.hardware_total = IF ~IsLicensing(component) THEN @ + price ELSE @,
                    !.line_items = Append(@, line_item),
                    !.notes = IF TruthyStr(component.notes)
                              THEN Append(@, <<component.name, ": ", component.notes[1]>>)
                              ELSE @]
                /\ output' = output
    /\ UNCHANGED <<solutions, vendors, products, next_id, probe, sessions>>

\* lines 198-226: the solution-level note, the totals and the response
generate_bom_return ==
    /\ call.pc = "loop"
    /\ call.i = Len(call.components)
    /\ output' = [NoOutput EXCEPT !.tool = "generate_solution_bom",
                                  !.bom = Some(BOMResponse(call))]
    /\ call' = [Idle EXCEPT !.pc = "returned", !.request = call.request]
    /\ UNCHANGED <<solutions, vendors, products, next_id, probe, sessions>>

-----------------------------------------------------------------------------
(* The create_solution and delete_solution tools *)

\* mcp_server.create_solution when the duplicate check finds a solution of
\* that name and vendor: an error, nothing is created
create_solution_exists(name, vendor_id) ==
    /\ call.pc # "loop"
    /\ get_solution_by_name(solutions, name, vendor_id) # None
    /\ output' = [NoOutput EXCEPT !.tool = "create_solution",
            !.error = Some(<<"Solution '", name,
                "' already exists for vendor '", vendor_id, "'">>)]
    /\ call' = Idle
    /\ UNCHANGED <<solutions, next_id, vendors, products, probe, sessions>>

\* mcp_server.create_solution when the duplicate check passes:
\* SolutionService.create_solution adds the solution and its components
create_solution(data) ==
    /\ call.pc # "loop"
    /\ next_id <= MaxCreates
    /\ get_solution_by_name(solutions, data.name, data.vendor_id) = None
    /\ solutions' = Append(solutions, new_solution(next_id, data))
    /\ next_id' = next_id + 1
    /\ output' = [NoOutput EXCEPT !.tool = "create_solution", !.success = TRUE]
    /\ call' = Idle
    /\ UNCHANGED <<vendors, products, probe, sessions>>

\* delete_solution reporting success without the commit of the deletion
delete_solution_uncommitted(solution_id) ==
    /\ call.pc # "loop"
    /\ IF get_solution(solutions, solution_id) = None
       THEN /\ output' = [NoOutput EXCEPT !.tool = "delete_solution",
                    !.error = Some(<<"Solution with ID '", solution_id, "' not found">>)]
            /\ UNCHANGED solutions
       ELSE /\ solutions' = solutions
            /\ output' = [NoOutput EXCEPT !.tool = "delete_solution",
                                          !.success = TRUE]
    /\ call' = Idle
    /\ UNCHANGED <<vendors, products, next_id, probe, sessions>>

\* mcp_server.delete_solution and SolutionService.delete_solution: the row and,
\* by the delete-orphan cascade, its components
delete_solution(solution_id) ==
    /\ call.pc # "loop"
    /\ IF get_solution(solutions, solution_id) = None
       THEN /\ output' = [NoOutput EXCEPT !.tool = "delete_solution",
                    !.error = Some(<<"Solution with ID '", solution_id, "' not found">>)]
            /\ UNCHANGED solutions
       ELSE /\ solutions' = SelectSeq(solutions, LAMBDA r : r.id # solution_id)
            /\ output' = [NoOutput EXCEPT !.tool = "delete_solution",
                                          !.success = TRUE]
    /\ call' = Idle
    /\ UNCHANGED <<vendors, products, next_id, probe, sessions>>

-----------------------------------------------------------------------------
(* The state machine of the solution tools *)

Init ==
    /\ solutions = <<>>
    /\ \E catalog \in Catalogs :
        /\ vendors = catalog.vendors
        /\ products = catalog.products
    /\ next_id = 1
    /\ call = Idle
    /\ output = NoOutput
    /\ probe = NoProbe
    /\ sessions = <<>>

Next ==
    \/ \E data \in SolutionCreates : create_solution(data)
    \/ \E data \in SolutionKeys : create_solution_exists(data.name, data.vendor_id)
    \/ \E solution_id \in 1..MaxCreates : delete_solution(solution_id)
    \/ \E request \in BOMRequests : generate_bom_load(request)
    \/ generate_bom_component
    \/ generate_bom_return

Spec == Init /\ [][Next]_vars

-----------------------------------------------------------------------------
(* _calculate_quantity applied on its own to every component and request *)

\* largest sites, devices and users value of a request
MaxScale == 3

\* largest quantity_default of a component
MaxDefault == 2

OptionalUpTo(n) == {None} \cup {Some(v) : v \in 0..n}

\* quantity formulas: well-formed, malformed, and failing at run time
Formulas ==
    { <<>>,
      <<Var("devices"), Op("/"), Num(2)>>,
      <<Var("sites"), Op("*"), Num(2)>>,
      <<Var("users"), Op("-"), Num(3)>>,
      <<Var("sites"), Op("+"), Var("devices"), Op("/"), Num(2)>>,
      <<Op("-"), Var("sites")>>,
      <<Var("devices"), Op("/"), Num(0)>>,
      <<Var("devices"), Op("/"), Var("users")>>,
      <<Var("sites"), Op("*")>>,
      <<Var("aps"), Op("+"), Num(1)>> }

QuantityComponents ==
    { [ComponentBase EXCEPT !.component_type = ct, !.quantity_type = qt,
                            !.quantity_default = qd, !.quantity_formula = f] :
        ct \in {"controller", "edge", "license"},
        qt \in {"fixed", "per_site", "per_device", "per_user", "calculated"},
        qd \in 0..MaxDefault,
        f \in Formulas }

QuantityRequests ==
    [solution_id : {1}, sites : OptionalUpTo(MaxScale),
     devices : OptionalUpTo(MaxScale), users : OptionalUpTo(MaxScale),
     license_tier : {None}, license_term_years : {None},
     ha_enabled : BOOLEAN, product_selections : {<<>>}]

InitQuantity ==
    /\ solutions = <<>>
    /\ vendors = <<>>
    /\ products = <<>>
    /\ next_id = 1
    /\ call = Idle
    /\ output = NoOutput
    /\ \E component \in QuantityComponents, request \in QuantityRequests :
        probe = [NoProbe EXCEPT !.fn = "_calculate_quantity",
                                !.component = component, !.request = request]
    /\ sessions = <<>>

calculate_quantity ==
    /\ probe.fn = "_calculate_quantity"
    /\ ~probe.done
    /\ probe' = [probe EXCEPT !.done = TRUE,
                    !.out = _calculate_quantity(probe.component, probe.request)]
    /\ UNCHANGED <<solutions, vendors, products, next_id, call, output, sessions>>

NextQuantity == calculate_quantity

SpecQuantity == InitQuantity /\ [][NextQuantity]_vars

-----------------------------------------------------------------------------
(* _resolve_product applied on its own to every component and request *)

\* largest quantity passed to _resolve_product
MaxQuantity == 2

\* sizing_tiers lists: none, scale tiers in ascending and descending order,
\* with a zero threshold, with a tier lacking its sku, and license tiers
TierLists ==
    { <<>>,
      ScaleTiers,
      <<[max_devices |-> 1, sku |-> "A"], [max_devices |-> 3, sku |-> "B"]>>,
      <<[max_devices |-> 3, sku |-> "B"], [max_devices |-> 1, sku |-> "A"]>>,
      <<[max_aps |-> 0, max_sites |-> 2, sku |-> "A"], [max_users |-> 1, sku |-> "B"]>>,
      <<[max_devices |-> 1], [max_devices |-> 2, sku |-> "B"], [sku |-> "A"]>>,
      <<[tier |-> "essentials", term_years |-> 3, sku |-> "X"],
        [tier |-> "essentials", term_years |-> 5, sku |-> "Y"],
        [tier |-> "advantage", term_years |-> 5, sku |-> "Z"]>>,
      <<[tier |-> "advantage", term_years |-> 3, sku |-> "X"],
        [tier |-> "advantage", term_years |-> 5, sku |-> ""]>> }

ResolveComponents ==
    { [ComponentBase EXCEPT !.sizing_tiers = tiers, !.product_options = options] @@
      [id |-> <<1, 1>>, solution_id |-> 1] :
        tiers \in TierLists, options \in {<<>>, <<"P", "Q">>} }

ResolveRequests ==
    [solution_id : {1}, sites : {None, Some(2)},
     devices : OptionalUpTo(MaxScale), users : {None},
     license_tier : {None, Some(""), Some("essentials"), Some("advantage"),
                     Some("premier")},
     license_term_years : {None, Some(3), Some(5), Some(7)},
     ha_enabled : {TRUE},
     product_selections : {<<>>, [c \in {<<1, 1>>} |-> "OVR"],
                           [c \in {<<1, 1>>} |-> ""], [c \in {<<1, 2>>} |-> "OVR"]}]

InitResolve ==
    /\ solutions = <<>>
    /\ \E catalog \in Catalogs :
        /\ vendors = catalog.vendors
        /\ products = catalog.products
    /\ next_id = 1
    /\ call = Idle
    /\ output = NoOutput
    /\ \E component \in ResolveComponents, request \in ResolveRequests,
          quantity \in 0..MaxQuantity :
        probe = [NoProbe EXCEPT !.fn = "_resolve_product",
                                !.component = component, !.request = request,
                                !.quantity = quantity]
    /\ sessions = <<>>

resolve_product ==
    /\ probe.fn = "_resolve_product"
    /\ ~probe.done
    /\ probe' = [probe EXCEPT !.done = TRUE,
                    !.out = _resolve_product(probe.component, probe.request,
                                             probe.quantity, products)]
    /\ UNCHANGED <<solutions, vendors, products, next_id, call, output, sessions>>

NextResolve == resolve_product

SpecResolve == InitResolve /\ [][NextResolve]_vars

-----------------------------------------------------------------------------
(* Tool calls on database sessions of their own.  Every tool call opens a   *)
(* session (get_db_session); the statements of a session are SELECTs that   *)
(* each read the rows committed at that moment, and a commit that writes    *)
(* at once all rows added or deleted in the session.                        *)

\* tool calls in progress at the same time
MaxSessions == 2

\* a session on which no tool was called
NoSession ==
    [tool |-> "", data |-> None, locals |-> Idle, loaded |-> {}, result |-> NoOutput]

\* lines 131-141 of generate_bom: the solution row (or the raise), the vendor
\* row and the empty locals; the components are not loaded yet
load_solution(request, solution_rows, vendor_rows) ==
    LET solution == get_solution(solution_rows, request.solution_id)
    IN  IF solution = None
        THEN [Idle EXCEPT !.pc = "raised", !.request = Some(request)]
        ELSE [Idle EXCEPT !.pc = "components", !.request = Some(request),
                          !.solution = solution,
                          !.vendor = query_vendor(vendor_rows, solution[1].vendor_id)]

\* line 144 of generate_bom: solution.components is loaded on first access,
\* as the solution_components rows with that solution_id at that moment
load_components(c, solution_rows) ==
    LET current == get_solution(solution_rows, c.solution[1].id)
    IN  [c EXCEPT !.pc = "loop",
                  !.components = IF current = None THEN <<>>
                                 ELSE sorted(current[1].components)]

\* mcp_server.generate_solution_bom up to the first query of generate_bom
session_generate_bom(s, request) ==
    /\ sessions[s].locals.pc \in {"idle", "returned", "raised", "done"}
    /\ \E c \in {load_solution(request, solutions, vendors)} :
        sessions' = [sessions EXCEPT ![s] =
            [tool |-> "generate_solution_bom", data |-> None, locals |-> c, loaded |-> {},
             result |-> IF c.pc = "raised"
                        THEN [NoOutput EXCEPT !.tool = "generate_solution_bom",
                                !.error = Some(<<"Solution not found: ",
                                                 request.solution_id>>)]
                        ELSE NoOutput]]
    /\ UNCHANGED <<solutions, vendors, products, next_id, call, output, probe>>

\* line 144 of generate_bom on a session
session_bom_components(s) ==
    /\ sessions[s].tool = "generate_solution_bom"
    /\ sessions[s].locals.pc = "components"
    /\ sessions' = [sessions EXCEPT ![s].locals = load_components(@, solutions)]
    /\ UNCHANGED <<solutions, vendors, products, next_id, call, output, probe>>

\* the products table as a session sees it: a row the session still holds
\* keeps the attributes it was loaded with (the identity map of the session
\* returns the object it holds for a primary key and does not refresh it).
\* The map holds its objects weakly, and _resolve_product keeps no reference
\* to the Product it has read: whether the object is still held at the next
\* query depends on when the interpreter has collected it.
identity_map(loaded, catalog) ==
    [k \in 1..Len(catalog) |->
        IF \E e \in loaded : e.id = k
        THEN (CHOOSE e \in loaded : e.id = k).row
        ELSE catalog[k]]

\* the row that the query for a sku puts in the identity map, if any
loaded_by(catalog, sku) ==
    IF TruthyStr(sku) /\ \E k \in 1..Len(catalog) : catalog[k].sku = sku[1]
    THEN LET k == Min({j \in 1..Len(catalog) : catalog[j].sku = sku[1]})
         IN  {[id |-> k, row |-> catalog[k]]}
    ELSE {}

\* session_bom_component adding to the totals of the first session, as if
\* the totals were kept on the service and not in the call
session_bom_component_shared_totals(s) ==
    /\ sessions[s].tool = "generate_solution_bom"
    /\ sessions[s].locals.pc = "loop"
    /\ sessions[s].locals.i < Len(sessions[s].locals.components)
    /\ \E c \in {sessions[s].locals}, catalog \in {identity_map(sessions[s].loaded, products)} :
       \E component \in {c.components[c.i + 1]}, request \in {c.request[1]} :
       \E calculated \in {_calculate_quantity(component, request)} :
       \E resolved \in {_resolve_product(component, request, calculated.value, catalog)} :
       \E line_item \in {BOMLineItem(component, request, calculated.value, resolved)} :
       \E price \in {IF line_item.extended_price # None
                     THEN line_item.extended_price[1] ELSE 0},
          held \in BOOLEAN :
           IF skipped(component, calculated.value)
           THEN sessions' = [sessions EXCEPT ![s].locals =
                    [c EXCEPT !.i = @ + 1, !.quantity = calculated.value, !.sku = None]]
           ELSE sessions' = [sessions EXCEPT
                    ![s].loaded = IF held THEN @ \cup loaded_by(catalog, resolved.sku)
                                          ELSE @,
                    ![s].locals = [c EXCEPT
                       !.i = @ + 1,
                       !.quantity = calculated.value,
                       !.sku = resolved.sku,
                       !.lookups = @ + resolved.lookups,
                       !.licensing_total = IF IsLicensing(component)
                                           THEN sessions[1].locals.licensing_total + price ELSE @,
                       !.hardware_total = IF ~IsLicensing(component)
                                          THEN sessions[1].locals.hardware_total + price ELSE @,
                       !.line_items = Append(@, line_item),
                       !.notes = IF TruthyStr(component.notes)
                                 THEN Append(@, <<component.name, ": ",
                                                  component.notes[1]>>)
                                 ELSE @]]
    /\ UNCHANGED <<solutions, vendors, products, next_id, call, output, probe>>

\* lines 146-196 of generate_bom on a session: one iteration of the loop,
\* its catalog query made at that moment through the session
session_bom_component(s) ==
    /\ sessions[s].tool = "generate_solution_bom"
    /\ sessions[s].locals.pc = "loop"
    /\ sessions[s].locals.i < Len(sessions[s].locals.components)
    /\ \E c \in {sessions[s].locals}, catalog \in {identity_map(sessions[s].loaded, products)} :
       \E component \in {c.components[c.i + 1]}, request \in {c.request[1]} :
       \E calculated \in {_calculate_quantity(component, request)} :
       \E resolved \in {_resolve_product(component, request, calculated.value, catalog)} :
       \E line_item \in {BOMLineItem(component, request, calculated.value, resolved)} :
       \E price \in {IF line_item.extended_price # None
                     THEN line_item.extended_price[1] ELSE 0},
          held \in BOOLEAN :
           IF skipped(component, calculated.value)
           THEN sessions' = [sessions EXCEPT ![s].locals =
                    [c EXCEPT !.i = @ + 1, !.quantity = calculated.value, !.sku = None]]
           ELSE sessions' = [sessions EXCEPT
                    ![s].loaded = IF held THEN @ \cup loaded_by(catalog, resolved.sku)
                                          ELSE @,
                    ![s].locals = [c EXCEPT
                       !.i = @ + 1,
                       !.quantity = calculated.value,
                       !.sku = resolved.sku,
                       !.lookups = @ + resolved.lookups,
                       !.licensing_total = IF IsLicensing(component)
                                           THEN @ + price ELSE @,
                       !.hardware_total = IF ~IsLicensing(component)
                                          THEN @ + price ELSE @,
                       !.line_items = Append(@, line_item),
                       !.notes = IF TruthyStr(component.notes)
                                 THEN Append(@, <<component.name, ": ",
                                                  component.notes[1]>>)
                                 ELSE @]]
    /\ UNCHANGED <<solutions, vendors, products, next_id, call, output, probe>>

\* lines 198-226 of generate_bom on a session, and the tool's return
session_bom_return(s) ==
    /\ sessions[s].tool = "generate_solution_bom"
    /\ sessions[s].locals.pc = "loop"
    /\ sessions[s].locals.i = Len(sessions[s].locals.components)
    /\ sessions' = [sessions EXCEPT
            ![s].result = [NoOutput EXCEPT !.tool = "generate_solution_bom",
                                           !.bom = Some(BOMResponse(sessions[s].locals))],
            ![s].locals = [Idle EXCEPT !.pc = "returned",
                                       !.request = sessions[s].locals.request]]
    /\ UNCHANGED <<solutions, vendors, products, next_id, call, output, probe>>

-----------------------------------------------------------------------------
(* generate_bom calls running at the same time on rows that do not change *)

\* the component definition of that name
ComponentDef(name) == CHOOSE d \in ComponentDefs : d.name = name

\* the solutions stored while the calls run
ReaderSolutions ==
    { new_solution(1, data) :
        data \in { d \in SolutionCreates :
                     /\ d.use_cases # <<>>
                     /\ d.components \in
                          { <<ComponentDef("Controller"), ComponentDef("License")>>,
                            <<ComponentDef("Edge Router"), ComponentDef("Collector")>> } } }

\* the requests of the calls: for the stored solution and for one that is not
ReaderRequests ==
    { r \in BOMRequests : r.sites = Some(2) /\ r.devices = Some(3) }

InitReaders ==
    /\ \E solution \in ReaderSolutions : solutions = <<solution>>
    /\ \E catalog \in Catalogs :
        /\ vendors = catalog.vendors
        /\ products = catalog.products
    /\ next_id = 2
    /\ call = Idle
    /\ output = NoOutput
    /\ probe = NoProbe
    /\ sessions = [s \in 1..MaxSessions |-> NoSession]

NextReaders ==
    \E s \in 1..MaxSessions :
        \/ \E request \in ReaderRequests : session_generate_bom(s, request)
        \/ session_bom_components(s)
        \/ session_bom_component(s)
        \/ session_bom_return(s)

SpecReaders == InitReaders /\ [][NextReaders]_vars

-----------------------------------------------------------------------------
(* Tool calls that write, running at the same time as generate_bom calls *)

\* mcp_server.create_solution up to its duplicate check: the error when a
\* solution of that name and vendor is stored, else the payload is built
session_create_solution_check(s, data) ==
    /\ sessions[s].locals.pc \in {"idle", "returned", "raised", "done"}
    /\ next_id + Cardinality({t \in 1..MaxSessions : sessions[t].locals.pc = "create"})
         <= MaxCreates
    /\ sessions' = [sessions EXCEPT ![s] =
            IF get_solution_by_name(solutions, data.name, data.vendor_id) # None
            THEN [tool |-> "create_solution", data |-> None,
                  locals |-> [Idle EXCEPT !.pc = "done"], loaded |-> {},
                  result |-> [NoOutput EXCEPT !.tool = "create_solution",
                      !.error = Some(<<"Solution '", data.name,
                          "' already exists for vendor '", data.vendor_id, "'">>)]]
            ELSE [tool |-> "create_solution", data |-> Some(data),
                  locals |-> [Idle EXCEPT !.pc = "create"], loaded |-> {},
                  result |-> NoOutput]]
    /\ UNCHANGED <<solutions, vendors, products, next_id, call, output, probe>>

\* SolutionService.create_solution called by the tool after the check: the
\* solution and its components are committed together
session_create_solution_commit(s) ==
    /\ sessions[s].tool = "create_solution"
    /\ sessions[s].locals.pc = "create"
    /\ solutions' = Append(solutions, new_solution(next_id, sessions[s].data[1]))
    /\ next_id' = next_id + 1
    /\ sessions' = [sessions EXCEPT
            ![s].locals = [Idle EXCEPT !.pc = "done"],
            ![s].result = [NoOutput EXCEPT !.tool = "create_solution",
                                           !.success = TRUE]]
    /\ UNCHANGED <<vendors, products, call, output, probe>>

\* mcp_server.delete_solution on a session: the solution and its components
\* are deleted by one commit
session_delete_solution(s, solution_id) ==
    /\ sessions[s].locals.pc \in {"idle", "returned", "raised", "done"}
    /\ IF get_solution(solutions, solution_id) = None
       THEN /\ sessions' = [sessions EXCEPT ![s] =
                    [tool |-> "delete_solution", data |-> None,
                     locals |-> [Idle EXCEPT !.pc = "done"], loaded |-> {},
                     result |-> [NoOutput EXCEPT !.tool = "delete_solution",
                         !.error = Some(<<"Solution with ID '", solution_id,
                                          "' not found">>)]]]
            /\ UNCHANGED solutions
       ELSE /\ solutions' = SelectSeq(solutions, LAMBDA r : r.id # solution_id)
            /\ sessions' = [sessions EXCEPT ![s] =
                    [tool |-> "delete_solution", data |-> None,
                     locals |-> [Idle EXCEPT !.pc = "done"], loaded |-> {},
                     result |-> [NoOutput EXCEPT !.tool = "delete_solution",
                                                 !.success = TRUE]]]
    /\ UNCHANGED <<vendors, products, next_id, call, output, probe>>

\* mcp_server.update_product_price on a session; product_id is the place of
\* the row in the products table
session_update_product_price(s, product_id, list_price) ==
    /\ sessions[s].locals.pc \in {"idle", "returned", "raised", "done"}
    /\ IF product_id \notin 1..Len(products)
       THEN /\ sessions' = [sessions EXCEPT ![s] =
                    [tool |-> "update_product_price", data |-> None,
                     locals |-> [Idle EXCEPT !.pc = "done"], loaded |-> {},
                     result |-> [NoOutput EXCEPT !.tool = "update_product_price",
                         !.error = Some(<<"Product with ID '", product_id,
                                          "' not found">>)]]]
            /\ UNCHANGED products
       ELSE /\ products' = [products EXCEPT ![product_id].list_price = Some(list_price)]
            /\ sessions' = [sessions EXCEPT ![s] =
                    [tool |-> "update_product_price", data |-> None,
                     locals |-> [Idle EXCEPT !.pc = "done"], loaded |-> {},
                     result |-> [NoOutput EXCEPT !.tool = "update_product_price",
                                                 !.success = TRUE]]]
    /\ UNCHANGED <<solutions, vendors, next_id, call, output, probe>>

\* the payloads of the create_solution calls
SessionCreates ==
    { d \in SolutionCreates :
        /\ d.use_cases = <<>>
        /\ d.components \in { <<ComponentDef("Controller"), ComponentDef("Controller")>>,
                              <<ComponentDef("License")>> } }

\* the requests of the generate_bom calls
SessionRequests ==
    { r \in ReaderRequests : r.license_tier = None /\ r.product_selections = <<>> }

\* the list prices written by update_product_price
SessionPrices == {120}

\* the product ids passed to update_product_price: the second row and none
SessionProducts == {2, 9}

InitSessions ==
    /\ solutions = <<>>
    /\ \E catalog \in Catalogs :
        /\ vendors = catalog.vendors
        /\ products = catalog.products
    /\ next_id = 1
    /\ call = Idle
    /\ output = NoOutput
    /\ probe = NoProbe
    /\ sessions = [s \in 1..MaxSessions |-> NoSession]

NextSessions ==
    \E s \in 1..MaxSessions :
        \/ \E request \in SessionRequests : session_generate_bom(s, request)
        \/ session_bom_components(s)
        \/ session_bom_component(s)
        \/ session_bom_return(s)
        \/ \E data \in SessionCreates : session_create_solution_check(s, data)
        \/ session_create_solution_commit(s)
        \/ \E solution_id \in 1..MaxCreates : session_delete_solution(s, solution_id)
        \/ \E product_id \in SessionProducts, list_price \in SessionPrices :
              session_update_product_price(s, product_id, list_price)

SpecSessions == InitSessions /\ [][NextSessions]_vars

-----------------------------------------------------------------------------
(* Properties of generate_bom, checked under Spec *)

\* C1: a generate_bom call whose solution_id matches no stored solution fails
\* with the error "Solution not found: <id>", returns no BOMResponse, and
\* leaves the stores and the engine as they were.
C1_UnknownSolutionFailsNotFound ==
    [][(/\ call.pc # "loop"
        /\ call'.pc \in {"loop", "raised"}
        /\ call' # call
        /\ \A k \in 1..Len(solutions) :
                solutions[k].id # call'.request[1].solution_id)
       => /\ call'.pc = "raised"
          /\ output'.tool = "generate_solution_bom"
          /\ output'.error
                = Some(<<"Solution not found: ", call'.request[1].solution_id>>)
          /\ output'.bom = None
          /\ UNCHANGED <<solutions, vendors, products, next_id>>]_vars

\* C1 witness: the call failed while another solution is stored
C1_Witness ==
    /\ call.pc = "raised"
    /\ output.tool = "generate_solution_bom"
    /\ output.error # None
    /\ Len(solutions) > 0

\* C2: once the solution_id has resolved to a stored solution the call never
\* ends in an error: every step of the loop either continues or returns a
\* BOMResponse, and an error is only ever returned for an id that is not stored.
C2_OnlyUnknownSolutionIsFatal ==
    [][/\ call.pc = "loop" =>
            /\ output'.error = None
            /\ \/ call'.pc = "loop"
               \/ call'.pc = "returned" /\ output'.bom # None
       /\ (/\ call.pc # "loop"
           /\ call'.pc \in {"loop", "raised"}
           /\ call' # call)
          => (call'.pc = "raised"
                <=> \A k \in 1..Len(solutions) :
                        solutions[k].id # call'.request[1].solution_id)]_vars

\* C2 witness: a BOM was returned although the vendor is missing, a SKU is not
\* in the catalog, a product has no price and a formula failed to evaluate
C2_Witness ==
    /\ output.bom # None
    /\ output.bom[1].vendor_name = None
    /\ \E k \in 1..Len(output.bom[1].line_items) :
        LET item == output.bom[1].line_items[k]
        IN  item.component_name = "Collector" /\ item.quantity = 2
    /\ \E k \in 1..Len(output.bom[1].line_items) :
        LET item == output.bom[1].line_items[k]
        IN  item.sku # None /\ item.product_name = None

\* C3: the line items of a response follow the display_order of their
\* components, and components of equal display_order keep the order in which
\* they were declared.
C3_LineItemsStableByDisplayOrder ==
    output.bom # None =>
        LET bom == output.bom[1]
            solution == solutions[CHOOSE k \in 1..Len(solutions) :
                                    solutions[k].id = bom.solution_id]
            pos(id) == CHOOSE k \in 1..Len(solution.components) :
                            solution.components[k].id = id
        IN  \A p, q \in 1..Len(bom.line_items) :
                p < q =>
                    LET a == pos(bom.line_items[p].component_id)
                        b == pos(bom.line_items[q].component_id)
                    IN  \/ solution.components[a].display_order
                             < solution.components[b].display_order
                        \/ /\ solution.components[a].display_order
                                = solution.components[b].display_order
                           /\ a < b

\* C3 witness: a response with two line items of equal display_order
C3_Witness ==
    /\ output.bom # None
    /\ Len(output.bom[1].line_items) = 2
    /\ LET solution == solutions[CHOOSE k \in 1..Len(solutions) :
                                    solutions[k].id = output.bom[1].solution_id]
       IN  /\ Len(solution.components) = 2
           /\ solution.components[1].display_order
                = solution.components[2].display_order

\* C4: every component of the template has exactly one line item when its
\* quantity is not 0 or it is required and none otherwise, and every line item
\* belongs to a component of the template.
C4_OneLineItemPerRetainedComponent ==
    output.bom # None =>
        LET bom == output.bom[1]
            solution == solutions[CHOOSE k \in 1..Len(solutions) :
                                    solutions[k].id = bom.solution_id]
            lines(c) == {k \in 1..Len(bom.line_items) :
                            bom.line_items[k].component_id = c.id}
        IN  /\ \A j \in 1..Len(solution.components) :
                LET c == solution.components[j]
                    quantity == _calculate_quantity(c, bom.parameters).value
                IN  Cardinality(lines(c))
                        = IF quantity # 0 \/ c.is_required THEN 1 ELSE 0
            /\ \A k \in 1..Len(bom.line_items) :
                \E j \in 1..Len(solution.components) :
                    solution.components[j].id = bom.line_items[k].component_id

\* C4 witness: one component was dropped and a required one kept at quantity 0
C4_Witness ==
    /\ output.bom # None
    /\ Len(output.bom[1].line_items) = 1
    /\ output.bom[1].line_items[1].quantity = 0
    /\ \E k \in 1..Len(solutions) :
        /\ solutions[k].id = output.bom[1].solution_id
        /\ Len(solutions[k].components) = 2

\* C5: a response that retains a required component at quantity 0 carries a
\* warning naming that component.
C5_ZeroQuantityRequiredWarns ==
    output.bom # None =>
        \A k \in 1..Len(output.bom[1].line_items) :
            LET item == output.bom[1].line_items[k]
            IN  (item.quantity = 0 /\ item.is_required) =>
                    \E w \in 1..Len(output.bom[1].warnings) :
                        \E t \in 1..Len(output.bom[1].warnings[w]) :
                            output.bom[1].warnings[w][t] = item.component_name

-----------------------------------------------------------------------------
(* Properties of _calculate_quantity, checked under SpecQuantity *)

\* C6: a fixed quantity is 2 exactly for a controller with ha_enabled and
\* quantity_default 1 and is quantity_default otherwise; for every other
\* quantity_type the quantity depends neither on ha_enabled nor on the
\* component being a controller.
C6_HADoublingOnlyFixedControllerDefaultOne ==
    probe.done =>
        LET c == probe.component
            r == probe.request
        IN  /\ probe.out.raised = ""
            /\ c.quantity_type = "fixed" =>
                probe.out.value
                    = IF /\ c.component_type = "controller"
                         /\ r.ha_enabled
                         /\ c.quantity_default = 1
                      THEN 2
                      ELSE c.quantity_default
            /\ c.quantity_type # "fixed" =>
                probe.out.value
                    = _calculate_quantity([c EXCEPT !.component_type = "edge"],
                                          [r EXCEPT !.ha_enabled = FALSE]).value

\* C6 witness: a fixed controller of default 1 was doubled under HA
C6_Witness ==
    /\ probe.done
    /\ probe.component.quantity_type = "fixed"
    /\ probe.component.component_type = "controller"
    /\ probe.component.quantity_default = 1
    /\ probe.request.ha_enabled
    /\ probe.out.value = 2

\* C7: a per_device quantity is request.devices whenever devices is supplied,
\* request.sites when only sites is supplied, and 0 when neither is.
C7_PerDeviceIsDevicesWhenSupplied ==
    (probe.done /\ probe.component.quantity_type = "per_device") =>
        probe.out.value
            = IF probe.request.devices # None THEN probe.request.devices[1]
              ELSE IF probe.request.sites # None THEN probe.request.sites[1]
              ELSE 0

C9_FormulaFailureFallsBackToDefault ==
    (/\ probe.done
     /\ probe.component.quantity_type = "calculated"
     /\ Len(probe.component.quantity_formula) > 0
     /\ ~eval(substituted(probe.component, probe.request)).ok) =>
        /\ probe.out.raised = ""
        /\ probe.out.value = probe.component.quantity_default

\* C9 witness: a division by zero at run time fell back to quantity_default 2
C9_Witness ==
    /\ probe.done
    /\ probe.component.quantity_type = "calculated"
    /\ probe.component.quantity_formula = <<Var("devices"), Op("/"), Var("users")>>
    /\ probe.request.devices = Some(3)
    /\ probe.request.users = None
    /\ eval(substituted(probe.component, probe.request)).err = "ZeroDivisionError"
    /\ probe.component.quantity_default = 2
    /\ probe.out.value = 2

-----------------------------------------------------------------------------
(* Properties of _resolve_product, checked under SpecResolve *)

\* C10: an entry of product_selections for the component is its sku verbatim,
\* whatever its sizing_tiers and product_options; without an entry, a component
\* with sizing_tiers takes its sku from a tier or has none, never from
\* product_options.
C10_OverrideThenTiersThenOptions ==
    probe.done =>
        LET c == probe.component
            selections == probe.request.product_selections
        IN  /\ c.id \in DOMAIN selections => probe.out.sku = Some(selections[c.id])
            /\ (c.id \notin DOMAIN selections /\ Len(c.sizing_tiers) > 0) =>
                \/ probe.out.sku = None
                \/ \E k \in 1..Len(c.sizing_tiers) :
                        probe.out.sku = get(c.sizing_tiers[k], "sku")

\* C10 witness: the override won over both sizing tiers and product options
C10_Witness ==
    /\ probe.done
    /\ probe.request.product_selections = [c \in {<<1, 1>>} |-> "OVR"]
    /\ Len(probe.component.sizing_tiers) > 0
    /\ Len(probe.component.product_options) > 0
    /\ probe.out.sku = Some("OVR")

\* C11: in scale-tier mode, with the scale metric being request.devices if
\* supplied, else request.sites if supplied, else the quantity, the sku is that
\* of the first tier in stored order whose threshold is at least the scale
\* metric, and that of the last tier when no tier has such a threshold.
C11_ScaleTierFirstFitElseLast ==
    LET c == probe.component
        r == probe.request
        tiers == c.sizing_tiers
        metric == IF r.devices # None THEN r.devices[1]
                  ELSE IF r.sites # None THEN r.sites[1]
                  ELSE probe.quantity
        threshold(tier) ==
            IF "max_aps" \in DOMAIN tier THEN Some(tier.max_aps)
            ELSE IF "max_devices" \in DOMAIN tier THEN Some(tier.max_devices)
            ELSE IF "max_sites" \in DOMAIN tier THEN Some(tier.max_sites)
            ELSE IF "max_users" \in DOMAIN tier THEN Some(tier.max_users)
            ELSE None
        Q == {k \in 1..Len(tiers) : /\ threshold(tiers[k]) # None
                                    /\ threshold(tiers[k])[1] >= metric}
    IN  (/\ probe.done
         /\ c.id \notin DOMAIN r.product_selections
         /\ Len(tiers) > 0
         /\ ~("tier" \in DOMAIN tiers[1] /\ "term_years" \in DOMAIN tiers[1])) =>
            probe.out.sku = IF Q = {} THEN get(tiers[Len(tiers)], "sku")
                            ELSE get(tiers[Min(Q)], "sku")

\* C12 as stated: in scale-tier mode, for tiers that each carry a positive
\* threshold and a sku and a positive scale metric, the sku is that of a tier
\* of least threshold among the tiers whose threshold is at least the scale
\* metric, in whatever order the tiers are stored.
C12_SmallestFittingTierAnyOrder ==
    LET c == probe.component
        r == probe.request
        tiers == c.sizing_tiers
        metric == IF r.devices # None THEN r.devices[1]
                  ELSE IF r.sites # None THEN r.sites[1]
                  ELSE probe.quantity
        threshold(tier) ==
            IF "max_aps" \in DOMAIN tier THEN tier.max_aps
            ELSE IF "max_devices" \in DOMAIN tier THEN tier.max_devices
            ELSE IF "max_sites" \in DOMAIN tier THEN tier.max_sites
            ELSE IF "max_users" \in DOMAIN tier THEN tier.max_users
            ELSE 0
        Q == {k \in 1..Len(tiers) : threshold(tiers[k]) >= metric}
        Least == {k \in Q : \A l \in Q : threshold(tiers[k]) <= threshold(tiers[l])}
    IN  (/\ probe.done
         /\ c.id \notin DOMAIN r.product_selections
         /\ Len(tiers) > 0
         /\ ~("tier" \in DOMAIN tiers[1] /\ "term_years" \in DOMAIN tiers[1])
         /\ metric > 0
         /\ \A k \in 1..Len(tiers) : /\ threshold(tiers[k]) > 0
                                     /\ TruthyStr(get(tiers[k], "sku"))
         /\ Q # {}) =>
            \E k \in Least : probe.out.sku = get(tiers[k], "sku")

\* C12 amended: under the same conditions the sku is that of the first tier in
\* stored order whose threshold is at least the scale metric; it is a tier of
\* least threshold among the fitting ones when the thresholds do not decrease
\* along the stored order.
C12_FirstFittingTierInStoredOrder ==
    LET c == probe.component
        r == probe.request
        tiers == c.sizing_tiers
        metric == IF r.devices # None THEN r.devices[1]
                  ELSE IF r.sites # None THEN r.sites[1]
                  ELSE probe.quantity
        threshold(tier) ==
            IF "max_aps" \in DOMAIN tier THEN tier.max_aps
            ELSE IF "max_devices" \in DOMAIN tier THEN tier.max_devices
            ELSE IF "max_sites" \in DOMAIN tier THEN tier.max_sites
            ELSE IF "max_users" \in DOMAIN tier THEN tier.max_users
            ELSE 0
        Q == {k \in 1..Len(tiers) : threshold(tiers[k]) >= metric}
        Least == {k \in Q : \A l \in Q : threshold(tiers[k]) <= threshold(tiers[l])}
        Ascending == \A k, l \in 1..Len(tiers) :
                        k < l => threshold(tiers[k]) <= threshold(tiers[l])
    IN  (/\ probe.done
         /\ c.id \notin DOMAIN r.product_selections
         /\ Len(tiers) > 0
         /\ ~("tier" \in DOMAIN tiers[1] /\ "term_years" \in DOMAIN tiers[1])
         /\ metric > 0
         /\ \A k \in 1..Len(tiers) : /\ threshold(tiers[k]) > 0
                                     /\ TruthyStr(get(tiers[k], "sku"))
         /\ Q # {}) =>
            /\ probe.out.sku = get(tiers[Min(Q)], "sku")
            /\ Ascending => \E k \in Least : probe.out.sku = get(tiers[k], "sku")

\* C12 witness: of two fitting tiers stored in descending order the first one,
\* of the larger threshold, supplied the sku
C12_Witness ==
    /\ probe.done
    /\ probe.request.product_selections = <<>>
    /\ probe.request.devices = Some(1)
    /\ probe.component.sizing_tiers
         = <<[max_devices |-> 3, sku |-> "B"], [max_devices |-> 1, sku |-> "A"]>>
    /\ probe.out.sku = Some("B")

C24_OptionsOnlyWithoutTiers ==
    LET c == probe.component
        r == probe.request
        tiers == c.sizing_tiers
        target_tier == IF TruthyStr(r.license_tier) THEN r.license_tier[1]
                       ELSE "essentials"
    IN  (probe.done /\ c.id \notin DOMAIN r.product_selections) =>
            /\ (Len(tiers) > 0 /\ Len(c.product_options) > 0) =>
                   probe.out.sku # Some(c.product_options[1])
            /\ (/\ Len(tiers) > 0
                /\ "tier" \in DOMAIN tiers[1] /\ "term_years" \in DOMAIN tiers[1]
                /\ \A k \in 1..Len(tiers) : get(tiers[k], "tier") # Some(target_tier)) =>
                   probe.out.sku = None
            /\ Len(tiers) = 0 =>
                   probe.out.sku = IF Len(c.product_options) > 0
                                   THEN Some(c.product_options[1]) ELSE None

\* C24 witness: no license tier is named as the request asks, the component
\* has product options, and no sku was resolved
C24_Witness ==
    /\ probe.done
    /\ probe.request.product_selections = <<>>
    /\ probe.request.license_tier = Some("premier")
    /\ Len(probe.component.sizing_tiers) = 3
    /\ "tier" \in DOMAIN probe.component.sizing_tiers[1]
    /\ probe.component.product_options = <<"P", "Q">>
    /\ probe.out.sku = None
    /\ probe.out.lookups = 0

\* C25: in scale-tier mode, for a positive request.devices and tiers that
\* each carry a sku, a tier qualifies exactly when the value of the first of
\* the keys max_aps, max_devices, max_sites, max_users present on it, be it 0,
\* is at least request.devices: the sku is that of the first tier that
\* qualifies so, and that of the last tier when none does.
C25_ThresholdIsFirstPresentKey ==
    LET c == probe.component
        r == probe.request
        tiers == c.sizing_tiers
        threshold(tier) ==
            IF "max_aps" \in DOMAIN tier THEN Some(tier.max_aps)
            ELSE IF "max_devices" \in DOMAIN tier THEN Some(tier.max_devices)
            ELSE IF "max_sites" \in DOMAIN tier THEN Some(tier.max_sites)
            ELSE IF "max_users" \in DOMAIN tier THEN Some(tier.max_users)
            ELSE None
        Q == {k \in 1..Len(tiers) : /\ threshold(tiers[k]) # None
                                    /\ threshold(tiers[k])[1] >= r.devices[1]}
    IN  (/\ probe.done
         /\ c.id \notin DOMAIN r.product_selections
         /\ Len(tiers) > 0
         /\ ~("tier" \in DOMAIN tiers[1] /\ "term_years" \in DOMAIN tiers[1])
         /\ TruthyInt(r.devices)
         /\ \A k \in 1..Len(tiers) : TruthyStr(get(tiers[k], "sku"))) =>
            probe.out.sku = IF Q = {} THEN get(tiers[Len(tiers)], "sku")
                            ELSE get(tiers[Min(Q)], "sku")

-----------------------------------------------------------------------------
(* Properties of the line items and totals of generate_bom, checked under Spec *)

\* C14: a loop iteration that retains a component whose sku is unresolved, or
\* names no product of the catalog, appends its line item with product_name,
\* unit_price and extended_price null, leaves hardware_total and
\* licensing_total as they were and raises nothing; such line items of a
\* response carry the three nulls.
C14_UnresolvedProductIsPriceless ==
    [][/\ (/\ call.pc = "loop"
           /\ call'.pc = "loop"
           /\ Len(call'.line_items) = Len(call.line_items) + 1
           /\ LET item == call'.line_items[Len(call'.line_items)]
              IN  \/ ~TruthyStr(item.sku)
                  \/ query_product(products, item.sku[1]) = None) =>
              LET item == call'.line_items[Len(call'.line_items)]
              IN  /\ item.product_name = None
                  /\ item.unit_price = None
                  /\ item.extended_price = None
                  /\ call'.hardware_total = call.hardware_total
                  /\ call'.licensing_total = call.licensing_total
                  /\ output'.error = None
       /\ output'.bom # None =>
              \A k \in 1..Len(output'.bom[1].line_items) :
                  LET item == output'.bom[1].line_items[k]
                  IN  (\/ ~TruthyStr(item.sku)
                       \/ query_product(products, item.sku[1]) = None) =>
                          /\ item.product_name = None
                          /\ item.unit_price = None
                          /\ item.extended_price = None]_vars

\* C14 witness: a response whose two line items, of positive quantity, are one
\* without sku and one whose sku is not in the catalog, and whose totals are
\* all null
C14_Witness ==
    /\ output.bom # None
    /\ Len(output.bom[1].line_items) = 2
    /\ \E k \in 1..2 :
        LET item == output.bom[1].line_items[k]
        IN  item.sku = None /\ item.quantity > 0 /\ item.extended_price = None
    /\ \E k \in 1..2 :
        LET item == output.bom[1].line_items[k]
        IN  /\ TruthyStr(item.sku)
            /\ query_product(products, item.sku[1]) = None
            /\ item.quantity > 0
            /\ item.extended_price = None
    /\ output.bom[1].hardware_total = None
    /\ output.bom[1].licensing_total = None
    /\ output.bom[1].grand_total = None

\* C15: in every line item of a response extended_price is null exactly when
\* unit_price is null, and is unit_price times quantity otherwise.
C15_ExtendedPriceIsUnitTimesQuantity ==
    output.bom # None =>
        \A k \in 1..Len(output.bom[1].line_items) :
            LET item == output.bom[1].line_items[k]
            IN  /\ item.extended_price = None <=> item.unit_price = None
                /\ item.unit_price # None =>
                       item.extended_price = Some(item.unit_price[1] * item.quantity)

\* C15 witness: a priced line item of quantity 0 has extended_price 0, next to
\* a priced line item of a larger quantity
C15_Witness ==
    /\ output.bom # None
    /\ \E k \in 1..Len(output.bom[1].line_items) :
        LET item == output.bom[1].line_items[k]
        IN  /\ item.quantity = 0
            /\ item.unit_price = Some(50)
            /\ item.extended_price = Some(0)
    /\ \E k \in 1..Len(output.bom[1].line_items) :
        LET item == output.bom[1].line_items[k]
        IN  /\ item.quantity = 2
            /\ item.unit_price = Some(100)
            /\ item.extended_price = Some(200)

\* C16: in every response hardware_total is the sum of the extended prices of
\* the line items that are neither license nor subscription, licensing_total
\* the sum over the line items that are, and each is null exactly when its sum
\* is zero.
C16_TotalsAreSumsNullWhenZero ==
    output.bom # None =>
        LET items == output.bom[1].line_items
            price(item) == IF item.extended_price # None
                           THEN item.extended_price[1] ELSE 0
            licensing(item) == item.component_type \in {"license", "subscription"}
            hardware_sum[k \in 0..Len(items)] ==
                IF k = 0 THEN 0
                ELSE hardware_sum[k - 1]
                       + (IF licensing(items[k]) THEN 0 ELSE price(items[k]))
            licensing_sum[k \in 0..Len(items)] ==
                IF k = 0 THEN 0
                ELSE licensing_sum[k - 1]
                       + (IF licensing(items[k]) THEN price(items[k]) ELSE 0)
        IN  /\ output.bom[1].hardware_total
                 = IF hardware_sum[Len(items)] = 0 THEN None
                   ELSE Some(hardware_sum[Len(items)])
            /\ output.bom[1].licensing_total
                 = IF licensing_sum[Len(items)] = 0 THEN None
                   ELSE Some(licensing_sum[Len(items)])

\* C17: in every response grand_total is null exactly when the hardware sum and
\* the licensing sum are both zero and is their sum otherwise; when every line
\* item has a null unit_price the three totals are null.
C17_GrandTotalNullWhenBothZero ==
    output.bom # None =>
        LET items == output.bom[1].line_items
            price(item) == IF item.extended_price # None
                           THEN item.extended_price[1] ELSE 0
            is_licensing(item) == item.component_type \in {"license", "subscription"}
            hardware_sum[k \in 0..Len(items)] ==
                IF k = 0 THEN 0
                ELSE hardware_sum[k - 1]
                       + (IF is_licensing(items[k]) THEN 0 ELSE price(items[k]))
            licensing_sum[k \in 0..Len(items)] ==
                IF k = 0 THEN 0
                ELSE licensing_sum[k - 1]
                       + (IF is_licensing(items[k]) THEN price(items[k]) ELSE 0)
            hardware == hardware_sum[Len(items)]
            licensing == licensing_sum[Len(items)]
        IN  /\ output.bom[1].grand_total
                 = IF hardware = 0 /\ licensing = 0 THEN None
                   ELSE Some(hardware + licensing)
            /\ (\A k \in 1..Len(items) : items[k].unit_price = None) =>
                   /\ output.bom[1].hardware_total = None
                   /\ output.bom[1].licensing_total = None
                   /\ output.bom[1].grand_total = None

\* C18: a line item of a license or subscription component carries the
\* request's license_tier and, as license_term_months, 12 times the request's
\* license_term_years when supplied, else the first license_term_months entry
\* of its component, else null; a line item of any other component carries
\* null for both.
C18_LicenseDetailsOnlyForLicensing ==
    output.bom # None =>
        LET request == call.request[1]
            solution == get_solution(solutions, output.bom[1].solution_id)[1]
        IN  \A k \in 1..Len(output.bom[1].line_items) :
                LET item == output.bom[1].line_items[k]
                    component == solution.components[
                        CHOOSE j \in 1..Len(solution.components) :
                            solution.components[j].id = item.component_id]
                IN  IF item.component_type \in {"license", "subscription"}
                    THEN /\ item.license_tier = request.license_tier
                         /\ item.license_term_months
                              = IF request.license_term_years # None
                                THEN Some(request.license_term_years[1] * 12)
                                ELSE IF Len(component.license_term_months) > 0
                                THEN Some(component.license_term_months[1])
                                ELSE None
                    ELSE /\ item.license_tier = None
                         /\ item.license_term_months = None

\* C18 witness: for a request with tier and term, a license line item with
\* that tier and 12 times the term, which is not its component's first entry,
\* next to a line item of another type with neither
C18_Witness ==
    /\ output.bom # None
    /\ call.request[1].license_tier = Some("advantage")
    /\ call.request[1].license_term_years = Some(3)
    /\ Len(output.bom[1].line_items) = 2
    /\ \E k \in 1..2 :
        LET item == output.bom[1].line_items[k]
        IN  /\ item.component_type = "license"
            /\ item.license_tier = Some("advantage")
            /\ item.license_term_months = Some(36)
    /\ \E k \in 1..2 :
        LET item == output.bom[1].line_items[k]
        IN  /\ item.component_type \notin {"license", "subscription"}
            /\ item.license_tier = None
            /\ item.license_term_months = None

\* C19: the outcome of a generate_bom call is a function of its request and of
\* the solution, vendor and product rows, which the call leaves as they are:
\* calls with the same request on the same rows return the same response or
\* the same error, whatever was called before.
C19_ResponseIsFunctionOfRequestAndRows ==
    [][/\ (call.pc = "loop" /\ call'.pc \in {"returned", "raised"}) =>
              output' = generate_solution_bom(call.request[1], solutions,
                                              vendors, products)
       /\ (call.pc # "loop" /\ call'.pc = "raised" /\ call' # call) =>
              output' = generate_solution_bom(call'.request[1], solutions,
                                              vendors, products)
       /\ (call.pc = "loop" \/ call'.pc = "loop") =>
              UNCHANGED <<solutions, vendors, products>>]_vars

\* C19 witness: after an earlier solution was created and deleted, a response
\* of two line items whose components tie on display_order, one of them priced
\* from the first of two catalog rows of its sku
C19_Witness ==
    /\ output.bom # None
    /\ output = generate_solution_bom(call.request[1], solutions, vendors, products)
    /\ output.bom[1].solution_id = 2
    /\ Len(solutions) = 1
    /\ Len(output.bom[1].line_items) = 2
    /\ solutions[1].components[1].display_order
         = solutions[1].components[2].display_order
    /\ \E k \in 1..2 : /\ output.bom[1].line_items[k].sku = Some("A")
                       /\ output.bom[1].line_items[k].unit_price = Some(100)
    /\ Cardinality({k \in 1..Len(products) : products[k].sku = "A"}) = 2

\* C20: no step of a generate_bom call changes the solution, vendor or product
\* rows; an iteration queries the catalog once when it retains a component
\* that resolved a sku and not at all otherwise, so that a response was built
\* with as many catalog queries as it has line items with a sku.
C20_ReadsOnlyOneLookupPerResolvedSku ==
    [][/\ (\/ call.pc = "loop"
           \/ call' # call /\ call'.pc \in {"loop", "raised"}) =>
              UNCHANGED <<solutions, vendors, products, next_id>>
       /\ (call.pc = "loop" /\ call'.pc = "loop") =>
              call'.lookups - call.lookups
                = IF /\ Len(call'.line_items) = Len(call.line_items) + 1
                     /\ TruthyStr(call'.line_items[Len(call'.line_items)].sku)
                  THEN 1 ELSE 0
       /\ (call.pc = "loop" /\ call'.pc = "returned") =>
              call.lookups
                = Cardinality({k \in 1..Len(output'.bom[1].line_items) :
                                  TruthyStr(output'.bom[1].line_items[k].sku)})]_vars

\* C20 witness: at the end of the loop over two retained components, one
\* without sku and one with a sku, the catalog was queried once
C20_Witness ==
    /\ call.pc = "loop"
    /\ call.i = Len(call.components)
    /\ Len(call.line_items) = 2
    /\ \E k \in 1..2 : call.line_items[k].sku = None
    /\ \E k \in 1..2 : TruthyStr(call.line_items[k].sku)
    /\ call.lookups = 1

-----------------------------------------------------------------------------
(* Properties of the solution tools, checked under Spec *)

\* C23: delete_solution of a stored solution succeeds and removes exactly that
\* solution with its components; of an id that is not stored it fails and
\* leaves the rows as they are; an id that was deleted is never found again,
\* so that a later generate_bom for it fails with "Solution not found" and a
\* later delete_solution, which succeeds on stored solutions only, fails.
C23_DeleteRemovesSolutionForGood ==
    [][/\ (output'.tool = "delete_solution" /\ output'.success) =>
              \E k \in 1..Len(solutions) :
                  /\ solutions' = SubSeq(solutions, 1, k - 1)
                                    \o SubSeq(solutions, k + 1, Len(solutions))
                  /\ get_solution(solutions', solutions[k].id) = None
       /\ (output'.tool = "delete_solution" /\ ~output'.success) =>
              \E solution_id \in 1..MaxCreates :
                  /\ output'.error
                       = Some(<<"Solution with ID '", solution_id, "' not found">>)
                  /\ get_solution(solutions, solution_id) = None
                  /\ solutions' = solutions
       /\ \A solution_id \in 1..(next_id - 1) :
              get_solution(solutions, solution_id) = None =>
                  /\ get_solution(solutions', solution_id) = None
                  /\ (call'.pc \in {"loop", "raised"} /\ call' # call
                        /\ call'.request[1].solution_id = solution_id) =>
                         /\ call'.pc = "raised"
                         /\ output'.error = Some(<<"Solution not found: ", solution_id>>)]_vars

\* C23 witness: the second delete_solution of a solution that was created and
\* deleted, beside a solution that is still stored, has failed
C23_Witness ==
    /\ output.tool = "delete_solution"
    /\ output.error = Some(<<"Solution with ID '", 1, "' not found">>)
    /\ next_id = 3
    /\ Len(solutions) = 1
    /\ solutions[1].id = 2
    /\ Len(solutions[1].components) = 2

\* C26: the notes of a response are the notes of its line items that have
\* any, in line-item order, each under the name of its component, followed by
\* one use-cases note when the solution declares a use case, and nothing else.
C26_NotesFollowLineItemsThenUseCases ==
    output.bom # None =>
        LET bom == output.bom[1]
            solution == get_solution(solutions, bom.solution_id)[1]
            noted == SelectSeq(bom.line_items, LAMBDA item : TruthyStr(item.notes))
            component_notes == [k \in 1..Len(noted) |->
                                  <<noted[k].component_name, ": ", noted[k].notes[1]>>]
        IN  bom.notes = IF Len(solution.use_cases_list) > 0
                        THEN Append(component_notes,
                                    <<"Use cases: ">> \o solution.use_cases_list)
                        ELSE component_notes

\* C26 witness: a response whose solution has two components with notes, of
\* which one was dropped, and use cases: one component note and the use-cases
\* note after it
C26_Witness ==
    /\ output.bom # None
    /\ LET solution == get_solution(solutions, output.bom[1].solution_id)[1]
       IN  /\ Len(solution.components) = 2
           /\ \A k \in 1..2 : TruthyStr(solution.components[k].notes)
    /\ Len(output.bom[1].line_items) = 1
    /\ output.bom[1].notes
         = <<<<"Collector", ": ", "sized by hand">>, <<"Use cases: ", "branch", "campus">>>>

\* C27: every stored component has the display_order its definition was
\* declared with, 0 included, and the line items of a response are in
\* ascending order of the declared display_order of their components.
C27_DeclaredDisplayOrderIsKept ==
    LET declared(name) == (CHOOSE d \in ComponentDefs : d.name = name).display_order
    IN  /\ \A k \in 1..Len(solutions) :
            \A j \in 1..Len(solutions[k].components) :
                solutions[k].components[j].display_order
                  = declared(solutions[k].components[j].name)
        /\ output.bom # None =>
            \A k, l \in 1..Len(output.bom[1].line_items) :
                k < l => declared(output.bom[1].line_items[k].component_name)
                           <= declared(output.bom[1].line_items[l].component_name)

\* C28: a license or subscription line item whose sku was supplied by a
\* license tier of its component reports the terms of that tier: its
\* license_term_months is 12 times the tier's term_years and its license_tier
\* is the tier's name.
C28_LicenseTermsAgreeWithTier ==
    output.bom # None =>
        LET request == call.request[1]
            solution == get_solution(solutions, output.bom[1].solution_id)[1]
        IN  \A k \in 1..Len(output.bom[1].line_items) :
                LET item == output.bom[1].line_items[k]
                    component == solution.components[
                        CHOOSE j \in 1..Len(solution.components) :
                            solution.components[j].id = item.component_id]
                    tiers == component.sizing_tiers
                IN  (/\ item.component_type \in {"license", "subscription"}
                     /\ component.id \notin DOMAIN request.product_selections
                     /\ Len(tiers) > 0
                     /\ "tier" \in DOMAIN tiers[1] /\ "term_years" \in DOMAIN tiers[1]
                     /\ TruthyStr(item.sku)) =>
                        \E t \in 1..Len(tiers) :
                            /\ get(tiers[t], "sku") = item.sku
                            /\ item.license_term_months = Some(12 * tiers[t].term_years)
                            /\ item.license_tier = Some(tiers[t].tier)

-----------------------------------------------------------------------------
(* Properties of generate_bom calls running at the same time, checked under *)
(* SpecReaders                                                              *)

\* C22: whatever the interleaving of the steps of the calls, a step of one call
\* leaves the locals and result of every other call as they are, and every
\* call returns the response, or the error, it returns when run alone on the
\* same rows.
C22_ConcurrentCallsReturnAsAlone ==
    [][\A s \in 1..MaxSessions :
          /\ sessions'[s] # sessions[s] =>
                \A t \in 1..MaxSessions \ {s} : sessions'[t] = sessions[t]
          /\ (sessions'[s] # sessions[s]
                /\ sessions'[s].locals.pc \in {"returned", "raised"}) =>
                sessions'[s].result
                  = generate_solution_bom(sessions'[s].locals.request[1],
                                          solutions, vendors, products)]_vars

\* C22 witness: one call has returned a response with a total while another,
\* for the same solution and with another request, is halfway through its
\* loop with a line item of its own
C22_Witness ==
    /\ sessions[1].locals.pc = "returned"
    /\ sessions[1].result.bom # None
    /\ sessions[1].result.bom[1].grand_total # None
    /\ sessions[2].locals.pc = "loop"
    /\ sessions[2].locals.i = 1
    /\ Len(sessions[2].locals.line_items) = 1
    /\ sessions[2].locals.request # sessions[1].locals.request
    /\ sessions[2].locals.request[1].solution_id
         = sessions[1].locals.request[1].solution_id

-----------------------------------------------------------------------------
(* Properties of tool calls running at the same time as writes, checked     *)
(* under SpecSessions                                                       *)

\* C21: the components a generate_bom call works on are all the components of
\* the solution row it has read, whatever delete_solution or create_solution
\* call is interleaved with it.
C21_NoTornTemplateRead ==
    \A s \in 1..MaxSessions :
        (sessions[s].tool = "generate_solution_bom" /\ sessions[s].locals.pc = "loop") =>
            sessions[s].locals.components
              = sorted(sessions[s].locals.solution[1].components)

\* C29: two line items of one response that have the same sku have the same
\* product_name and the same unit_price, whatever update_product_price call is
\* interleaved with the catalog lookups of the call.
C29_SameSkuSamePrice ==
    \A s \in 1..MaxSessions :
        sessions[s].result.bom # None =>
            \A k, l \in 1..Len(sessions[s].result.bom[1].line_items) :
                LET a == sessions[s].result.bom[1].line_items[k]
                    b == sessions[s].result.bom[1].line_items[l]
                IN  (TruthyStr(a.sku) /\ a.sku = b.sku) =>
                        /\ a.product_name = b.product_name
                        /\ a.unit_price = b.unit_price

\* C30: no two stored solutions have the same name and vendor_id, and a
\* create_solution call for a stored name and vendor_id returns an error and
\* stores nothing.
C30_OneSolutionPerNameAndVendor ==
    \A k, l \in 1..Len(solutions) :
        (/\ solutions[k].name = solutions[l].name
         /\ solutions[k].vendor_id = solutions[l].vendor_id) => k = l

====
